---- MODULE Spec2Model ----
(***************************************************************************)
(* Clifford gates acting on an n-qubit stabilizer state in CH-form         *)
(* (cliffords.py).  A StabState is the record                              *)
(*   [A, B, C : n x n bit matrices, g : Z_4^n, v, s : bit vectors, phase]  *)
(* and every gate method is a function from states to states; the actions  *)
(* below call them the way a circuit does.                                 *)
(***************************************************************************)
EXTENDS Integers, Sequences, FiniteSets, TLC

VARIABLES
    state,    \* the StabState every gate call mutates
    last,     \* the last call made
    pre,      \* the state before the last call
    run,      \* how many times in a row the last call has been made
    base,     \* the state before that run of calls
    raised,   \* whether the last call raised IndexError
    hcalls,   \* the branch the last HGate.apply took and the calls it made
    steps,    \* calls made so far, where a specification limits them
    heap,     \* the gate objects of the chaining operator, by reference
    heapPre,  \* the gate objects before the last a | b
    ret       \* the reference the last a | b returned

vars == <<state, last, pre, run, base, raised, hcalls, steps, heap, heapPre, ret>>

(***************************************************************************)
(* Bounds of the model.                                                    *)
(***************************************************************************)
N == 2          \* number of qubits of the state
MaxRun == 4     \* longest run of identical calls that is tracked
MaxSteps == 2   \* calls per behaviour from the basis state, where they are limited
MaxObjs == 5    \* gate objects alive at once
MaxLen == 3     \* longest gate list of a composite

(***************************************************************************)
(* numpy uint8 arithmetic and constants.UNSIGNED_4.                        *)
(***************************************************************************)
Uint8Mod == 256
UNSIGNED_4 == 4

U8(x) == x % Uint8Mod

Q == 0 .. (N - 1)
Bit == {0, 1}
Rows == [Q -> Bit]

\* a ^ b on arrays whose entries are 0 or 1
Xor(a, b) == (a + b) % 2

XorRow(r1, r2) == [j \in Q |-> Xor(r1[j], r2[j])]

\* M[:, j]
Col(M, j) == [i \in Q |-> M[i][j]]

\* M[:, j] = col
SetCol(M, j, col) == [i \in Q |-> [M[i] EXCEPT ![j] = col[i]]]

RECURSIVE SumUpTo(_, _)
SumUpTo(f, k) == IF k < 0 THEN 0 ELSE f[k] + SumUpTo(f, k - 1)

\* x.sum() of a length-n array, in a wide integer type
Sum(f) == SumUpTo(f, N - 1)

\* x @ y of two uint8 vectors: a uint8 scalar
Dot(x, y) == U8(Sum([j \in Q |-> x[j] * y[j]]))

Identity == [i \in Q |-> [j \in Q |-> IF i = j THEN 1 ELSE 0]]
ZeroMat == [i \in Q |-> [j \in Q |-> 0]]
ZeroVec == [i \in Q |-> 0]

(***************************************************************************)
(* numpy indexing of an axis of length n: -n .. -1 count from the end,     *)
(* anything outside -n .. n-1 raises IndexError.                           *)
(***************************************************************************)
IndexOK(i) == -N <= i /\ i < N

Idx(i) == IF i < 0 THEN i + N ELSE i

(***************************************************************************)
(* SGate                                                                   *)
(***************************************************************************)
\* SGate.rightMultiplyC without the % constants.UNSIGNED_4
SGate_rightMultiplyC_noMod(st, target) ==
    LET t == Idx(target)
        col == [p \in Q |-> Xor(st.C[p][t], st.A[p][t])]
    IN [st EXCEPT !.C = SetCol(st.C, t, col),
                  !.g = [p \in Q |-> U8(st.g[p] - st.A[p][t])]]

SGate_rightMultiplyC(st, target) ==
    LET t == Idx(target)
        col == [p \in Q |-> Xor(st.C[p][t], st.A[p][t])]
    IN [st EXCEPT !.C = SetCol(st.C, t, col),
                  !.g = [p \in Q |-> U8(st.g[p] - st.A[p][t]) % UNSIGNED_4]]

\* SGate.leftMultiplyC without the % constants.UNSIGNED_4
SGate_leftMultiplyC_noMod(st, target) ==
    LET t == Idx(target)
    IN [st EXCEPT !.C[t] = XorRow(st.C[t], st.B[t]),
                  !.g[t] = U8(st.g[t] + 3)]

SGate_leftMultiplyC(st, target) ==
    LET t == Idx(target)
    IN [st EXCEPT !.C[t] = XorRow(st.C[t], st.B[t]),
                  !.g[t] = U8(st.g[t] + 3) % UNSIGNED_4]

(***************************************************************************)
(* CXGate                                                                  *)
(***************************************************************************)
CXGate_rightMultiplyC(st, target, control) ==
    LET t == Idx(target)
        c == Idx(control)
        B1 == SetCol(st.B, c, [p \in Q |-> Xor(st.B[p][c], st.B[p][t])])
        A1 == SetCol(st.A, t, [p \in Q |-> Xor(st.A[p][t], st.A[p][c])])
        C1 == SetCol(st.C, c, [p \in Q |-> Xor(st.C[p][c], st.C[p][t])])
    IN [st EXCEPT !.B = B1, !.A = A1, !.C = C1]

\* CXGate.leftMultiplyC with the rows of A exchanged: A[target] ^= A[control]
CXGate_leftMultiplyC_rowsOfA(st, target, control) ==
    LET t == Idx(target)
        c == Idx(control)
        g1 == [st.g EXCEPT ![c] =
                 U8(st.g[c] + st.g[t] + U8(2 * Dot(st.C[c], st.A[t]))) % UNSIGNED_4]
        B1 == [st.B EXCEPT ![t] = XorRow(st.B[t], st.B[c])]
        A1 == [st.A EXCEPT ![t] = XorRow(st.A[t], st.A[c])]
        C1 == [st.C EXCEPT ![c] = XorRow(st.C[c], st.C[t])]
    IN [st EXCEPT !.g = g1, !.B = B1, !.A = A1, !.C = C1]

\* CXGate.leftMultiplyC without g[target] in the new g[control]
CXGate_leftMultiplyC_noGTarget(st, target, control) ==
    LET t == Idx(target)
        c == Idx(control)
        g1 == [st.g EXCEPT ![c] =
                 U8(st.g[c] + U8(2 * Dot(st.C[c], st.A[t]))) % UNSIGNED_4]
        B1 == [st.B EXCEPT ![t] = XorRow(st.B[t], st.B[c])]
        A1 == [st.A EXCEPT ![c] = XorRow(st.A[c], st.A[t])]
        C1 == [st.C EXCEPT ![c] = XorRow(st.C[c], st.C[t])]
    IN [st EXCEPT !.g = g1, !.B = B1, !.A = A1, !.C = C1]

\* CXGate.leftMultiplyC without the 2 * (C[control] @ A[target]) term
CXGate_leftMultiplyC_noDot(st, target, control) ==
    LET t == Idx(target)
        c == Idx(control)
        g1 == [st.g EXCEPT ![c] = U8(st.g[c] + st.g[t]) % UNSIGNED_4]
        B1 == [st.B EXCEPT ![t] = XorRow(st.B[t], st.B[c])]
        A1 == [st.A EXCEPT ![c] = XorRow(st.A[c], st.A[t])]
        C1 == [st.C EXCEPT ![c] = XorRow(st.C[c], st.C[t])]
    IN [st EXCEPT !.g = g1, !.B = B1, !.A = A1, !.C = C1]

CXGate_leftMultiplyC(st, target, control) ==
    LET t == Idx(target)
        c == Idx(control)
        g1 == [st.g EXCEPT ![c] =
                 U8(st.g[c] + st.g[t] + U8(2 * Dot(st.C[c], st.A[t]))) % UNSIGNED_4]
        B1 == [st.B EXCEPT ![t] = XorRow(st.B[t], st.B[c])]
        A1 == [st.A EXCEPT ![c] = XorRow(st.A[c], st.A[t])]
        C1 == [st.C EXCEPT ![c] = XorRow(st.C[c], st.C[t])]
    IN [st EXCEPT !.g = g1, !.B = B1, !.A = A1, !.C = C1]

(***************************************************************************)
(* CZGate                                                                  *)
(***************************************************************************)
CZGate_rightMultiplyC(st, target, control) ==
    LET t == Idx(target)
        c == Idx(control)
        C1 == SetCol(st.C, c, [p \in Q |-> Xor(st.C[p][c], st.A[p][t])])
        C2 == SetCol(C1, t, [p \in Q |-> Xor(C1[p][t], st.A[p][c])])
    IN [st EXCEPT !.C = C2,
                  !.g = [p \in Q |->
                           U8(st.g[p] + U8(U8(2 * st.A[p][c]) * st.A[p][t])) % UNSIGNED_4]]

CZGate_leftMultiplyC(st, target, control) ==
    LET t == Idx(target)
        c == Idx(control)
        C1 == [st.C EXCEPT ![c] = XorRow(st.C[c], st.B[t])]
        C2 == [C1 EXCEPT ![t] = XorRow(C1[t], st.B[c])]
    IN [st EXCEPT !.C = C2]

(***************************************************************************)
(* The complex scalar phase.  Every factor the gates multiply it by is 0   *)
(* or w^e * sqrt(2)^k with w = exp(i pi/4), so the phase is kept exactly   *)
(* as [zero, e, k] (the float rounding of the source is not modelled).     *)
(***************************************************************************)
PhaseZero == [zero |-> TRUE, e |-> 0, k |-> 0]

PhaseUnit(e, k) == [zero |-> FALSE, e |-> e % 8, k |-> k]

PhaseOne == PhaseUnit(0, 0)

PhaseMul(p, q) ==
    IF p.zero \/ q.zero THEN PhaseZero ELSE PhaseUnit(p.e + q.e, p.k + q.k)

\* abs(phase) = 1
PhaseMagnitudeOne(p) == ~p.zero /\ p.k = 0

\* ((-1)**alpha + (1j**gt) * (-1)**beta) / sqrt(2)
HGate_sameFactor(alpha, gt, beta) ==
    LET x == (2 * alpha) % 4
        y == (gt + 2 * beta) % 4
        d == (y - x) % 4
    IN CASE d = 0 -> PhaseUnit(2 * x, 1)
         [] d = 1 -> PhaseUnit(2 * x + 1, 0)
         [] d = 2 -> PhaseZero
         [] OTHER -> PhaseUnit(2 * x + 7, 0)

\* (-1)**alpha / sqrt(2)
HGate_splitFactor(alpha) == PhaseUnit(4 * alpha, -1)

(***************************************************************************)
(* util.desuperpositionise(t, u, d, v): rewrite U_H (|t> + i^d |u>), t # u,*)
(* as phase * W * U_H' |s'> with W a list of C-type gates.  Returns        *)
(* [phase, VCList, v, s].                                                  *)
(***************************************************************************)
MinOf(S) == CHOOSE x \in S : \A y \in S : x <= y

RECURSIVE Ascending(_)
Ascending(S) ==
    IF S = {} THEN << >>
    ELSE LET m == MinOf(S) IN <<m>> \o Ascending(S \ {m})

GateS(target) == [gate |-> "S", target |-> target]
GateCX(target, control) == [gate |-> "CX", target |-> target, control |-> control]
GateCZ(target, control) == [gate |-> "CZ", target |-> target, control |-> control]

desuperpositionise(t, u, d, v) ==
    LET D == {j \in Q : t[j] # u[j]}
        V0 == {j \in D : v[j] = 0}
        V1 == {j \in D : v[j] = 1}
        q == IF V0 # {} THEN MinOf(V0) ELSE MinOf(V1)
        cx0 == Ascending(V0 \ {q})
        cz1 == Ascending(V1)
        cx1 == Ascending(V1 \ {q})
        W == IF V0 # {}
             THEN [i \in 1 .. Len(cx0) |-> GateCX(cx0[i], q)]
                  \o [i \in 1 .. Len(cz1) |-> GateCZ(cz1[i], q)]
             ELSE [i \in 1 .. Len(cx1) |-> GateCX(q, cx1[i])]
        \* the two branches after W: y and y with bit q flipped, y[q] = t[q]
        y == IF t[q] = 1 THEN [u EXCEPT ![q] = 1] ELSE t
        dd == IF t[q] = 1 THEN (4 - d) % 4 ELSE d
        lead == IF t[q] = 1 THEN 2 * d ELSE 0
        \* H^v[q] (|0> + i^dd |1>) = sqrt(2) w^a S^b H^c |e>
        a == IF v[q] = 1 /\ dd = 1 THEN 1 ELSE IF v[q] = 1 /\ dd = 3 THEN 7 ELSE 0
        b == dd % 2
        c == IF v[q] = 0 THEN 1 ELSE dd % 2
        e == IF v[q] = 0 THEN dd \div 2
             ELSE IF dd = 1 \/ dd = 2 THEN 1 ELSE 0
    IN [phase |-> PhaseUnit(a + lead, 1),
        VCList |-> IF b = 1 THEN W \o <<GateS(q)>> ELSE W,
        v |-> [v EXCEPT ![q] = c],
        s |-> [y EXCEPT ![q] = e]]

\* gate.rightMultiplyC(state), dispatched on the gate's class
rightMultiplyC(st, gate) ==
    CASE gate.gate = "S" -> SGate_rightMultiplyC(st, gate.target)
      [] gate.gate = "CX" -> CXGate_rightMultiplyC(st, gate.target, gate.control)
      [] OTHER -> CZGate_rightMultiplyC(st, gate.target, gate.control)

\* for gate in VCList: gate.rightMultiplyC(state)
RECURSIVE HGate_cleanup(_, _)
HGate_cleanup(st, VCList) ==
    IF VCList = << >> THEN st
    ELSE HGate_cleanup(rightMultiplyC(st, Head(VCList)), Tail(VCList))

(***************************************************************************)
(* HGate                                                                   *)
(***************************************************************************)
HGate_t(st, target) ==
    [j \in Q |-> Xor(st.s[j], U8(st.B[Idx(target)][j] * st.v[j]))]

\* u with A[target] * v where the source has A[target] * (1 - v)
HGate_u_noComplement(st, target) ==
    [j \in Q |-> Xor(Xor(st.s[j], U8(st.A[Idx(target)][j] * st.v[j])),
                     U8(st.C[Idx(target)][j] * st.v[j]))]

HGate_u(st, target) ==
    [j \in Q |-> Xor(Xor(st.s[j], U8(st.A[Idx(target)][j] * U8(1 - st.v[j]))),
                     U8(st.C[Idx(target)][j] * st.v[j]))]

HGate_alpha(st, target) ==
    Sum([j \in Q |-> U8(U8(st.B[Idx(target)][j] * U8(1 - st.v[j])) * st.s[j])])

HGate_beta(st, target) ==
    Sum([j \in Q |->
           U8(U8(U8(st.C[Idx(target)][j] * U8(1 - st.v[j])) * st.s[j])
              + U8(U8(st.A[Idx(target)][j] * st.v[j])
                   * U8(st.C[Idx(target)][j] + st.s[j])))])

\* any(t == u)
HGate_same_any(t, u) == \E j \in Q : t[j] = u[j]

\* all(t == u)
HGate_same(t, u) == \A j \in Q : t[j] = u[j]

HGate_desup(st, target) ==
    desuperpositionise(HGate_t(st, target), HGate_u(st, target),
                       (st.g[Idx(target)]
                          + 2 * (HGate_alpha(st, target) + HGate_beta(st, target)))
                         % UNSIGNED_4,
                       st.v)

HGate_apply(st, target) ==
    LET t == HGate_t(st, target)
        u == HGate_u(st, target)
        alpha == HGate_alpha(st, target)
        beta == HGate_beta(st, target)
    IN IF HGate_same(t, u)
       THEN [st EXCEPT !.s = t,
                       !.phase = PhaseMul(st.phase,
                                          HGate_sameFactor(alpha, st.g[Idx(target)], beta))]
       ELSE LET r == HGate_desup(st, target)
                st1 == [st EXCEPT
                          !.phase = PhaseMul(PhaseMul(st.phase, r.phase),
                                             HGate_splitFactor(alpha)),
                          !.v = r.v,
                          !.s = r.s]
            IN HGate_cleanup(st1, r.VCList)

\* what one HGate.apply call did besides changing the state: the branch it took
\* and how many desuperpositionise and rightMultiplyC calls it made
HGate_calls(st, target) ==
    IF HGate_same(HGate_t(st, target), HGate_u(st, target))
    THEN [branch |-> "same", desup |-> 0, right |-> 0]
    ELSE [branch |-> "split", desup |-> 1,
          right |-> Len(HGate_desup(st, target).VCList)]

NoCalls == [branch |-> "none", desup |-> 0, right |-> 0]

(***************************************************************************)
(* A circuit calling the gates' methods on the one state it owns.          *)
(* limit < 0: any number of calls; otherwise at most limit calls.          *)
(***************************************************************************)
BasisState ==
    [A |-> Identity, B |-> Identity, C |-> ZeroMat, g |-> ZeroVec,
     v |-> ZeroVec, s |-> ZeroVec, phase |-> PhaseOne]

NoCall == [gate |-> "none"]

Call1(gate, method, target) ==
    [gate |-> gate, method |-> method, target |-> target]

Call2(gate, method, target, control) ==
    [gate |-> gate, method |-> method, target |-> target, control |-> control]

GateVars == <<heap, heapPre, ret>>

\* the bookkeeping of one call: ok is FALSE when an index raised IndexError (every
\* method evaluates all its index expressions before its first assignment, so a
\* raising call leaves the state as it was).  The record of the calls is kept only
\* where their number is limited.
Called(call, ok, limit) ==
    /\ limit < 0 \/ steps < limit
    /\ steps' = IF limit < 0 THEN steps ELSE steps + 1
    /\ last' = IF limit < 0 THEN last ELSE call
    /\ pre' = IF limit < 0 THEN pre ELSE state
    /\ raised' = IF limit < 0 THEN raised ELSE ~ok
    /\ run' = IF limit < 0 THEN run
              ELSE IF call = last /\ run < MaxRun THEN run + 1 ELSE 1
    /\ base' = IF limit < 0 THEN base
               ELSE IF call = last /\ run < MaxRun THEN base ELSE state
    /\ UNCHANGED GateVars

\* hcalls after a call: what HGate.apply did, where the record is kept
Traced(calls, limit) == hcalls' = IF limit < 0 THEN hcalls ELSE calls

CallSApply(target, limit) ==
    /\ Called(Call1("S", "apply", target), IndexOK(target), limit)
    /\ state' = IF IndexOK(target) THEN SGate_leftMultiplyC(state, target) ELSE state
    /\ Traced(NoCalls, limit)

CallSRight(target, limit) ==
    /\ Called(Call1("S", "rightMultiplyC", target), IndexOK(target), limit)
    /\ state' = IF IndexOK(target) THEN SGate_rightMultiplyC(state, target) ELSE state
    /\ Traced(NoCalls, limit)

CallCXApply(target, control, limit) ==
    /\ Called(Call2("CX", "apply", target, control),
              IndexOK(target) /\ IndexOK(control), limit)
    /\ state' = IF IndexOK(target) /\ IndexOK(control)
                THEN CXGate_leftMultiplyC(state, target, control) ELSE state
    /\ Traced(NoCalls, limit)

CallCXRight(target, control, limit) ==
    /\ Called(Call2("CX", "rightMultiplyC", target, control),
              IndexOK(target) /\ IndexOK(control), limit)
    /\ state' = IF IndexOK(target) /\ IndexOK(control)
                THEN CXGate_rightMultiplyC(state, target, control) ELSE state
    /\ Traced(NoCalls, limit)

CallCZApply(target, control, limit) ==
    /\ Called(Call2("CZ", "apply", target, control),
              IndexOK(target) /\ IndexOK(control), limit)
    /\ state' = IF IndexOK(target) /\ IndexOK(control)
                THEN CZGate_leftMultiplyC(state, target, control) ELSE state
    /\ Traced(NoCalls, limit)

CallCZRight(target, control, limit) ==
    /\ Called(Call2("CZ", "rightMultiplyC", target, control),
              IndexOK(target) /\ IndexOK(control), limit)
    /\ state' = IF IndexOK(target) /\ IndexOK(control)
                THEN CZGate_rightMultiplyC(state, target, control) ELSE state
    /\ Traced(NoCalls, limit)

CallHApply(target, limit) ==
    /\ Called(Call1("H", "apply", target), IndexOK(target), limit)
    /\ state' = IF IndexOK(target) THEN HGate_apply(state, target) ELSE state
    /\ Traced(IF IndexOK(target) THEN HGate_calls(state, target) ELSE NoCalls, limit)

NoGates == << >>

InitWith(st, h) ==
    /\ state = st
    /\ last = NoCall
    /\ pre = st
    /\ run = 0
    /\ base = st
    /\ raised = FALSE
    /\ hcalls = NoCalls
    /\ steps = 0
    /\ heap = h
    /\ heapPre = h
    /\ ret = 0

InitFrom(st) == InitWith(st, NoGates)

(***************************************************************************)
(* Spec: the C-type gates, by either method, on the basis state, with      *)
(* qubit indices in 0 .. n-1 and target # control.                         *)
(***************************************************************************)
Init == InitFrom(BasisState)

Next ==
    \/ \E t \in Q : CallSApply(t, -1)
    \/ \E t \in Q : CallSRight(t, -1)
    \/ \E t \in Q, c \in Q : t # c /\ CallCXApply(t, c, -1)
    \/ \E t \in Q, c \in Q : t # c /\ CallCXRight(t, c, -1)
    \/ \E t \in Q, c \in Q : t # c /\ CallCZApply(t, c, -1)
    \/ \E t \in Q, c \in Q : t # c /\ CallCZRight(t, c, -1)

Spec == Init /\ [][Next]_vars

\* parity of the number of positions where two bit rows are both 1
Parity(r1, r2) == Sum([j \in Q |-> r1[j] * r2[j]]) % 2

\* the fields of a state that describe U_C
UC(st) == [A |-> st.A, B |-> st.B, C |-> st.C, g |-> st.g]

\* C2: in every state the C-type gates reach from the basis state, applying
\* CXGate(target, control) twice (target # control) gives back A, B, C and g,
\* and so does applying CZGate(target, control) twice.
C2_TwiceRestores ==
    \A t \in Q, c \in Q :
        t # c =>
            /\ UC(CXGate_leftMultiplyC(CXGate_leftMultiplyC(state, t, c), t, c)) = UC(state)
            /\ UC(CZGate_leftMultiplyC(CZGate_leftMultiplyC(state, t, c), t, c)) = UC(state)

\* a reached state, other than the basis state, in which one CX changes g, A, B and C
\* and one CZ changes C, while g[target] is odd, and the second application restores
\* them
C2_Witness ==
    \E t \in Q, c \in Q :
        /\ t # c
        /\ state.g[t] % 2 = 1
        /\ state.C # ZeroMat
        /\ LET once == CXGate_leftMultiplyC(state, t, c)
               z == CZGate_leftMultiplyC(state, t, c)
           IN /\ once.g # state.g /\ once.A # state.A
              /\ once.B # state.B /\ once.C # state.C
              /\ z.C # state.C
              /\ UC(CXGate_leftMultiplyC(once, t, c)) = UC(state)
              /\ UC(CZGate_leftMultiplyC(z, t, c)) = UC(state)

\* C9: in every state the C-type gates reach from the basis state, A times the
\* transpose of B over GF(2) is the identity: row i of A meets row i of B with
\* parity 1 and every other row of B with parity 0.
C9_ABtIdentity ==
    \A i \in Q, j \in Q : Parity(state.A[i], state.B[j]) = (IF i = j THEN 1 ELSE 0)

\* a reached state in which A and B are neither the identity nor equal
C9_Witness ==
    /\ state.A # Identity
    /\ state.B # Identity
    /\ state.A # state.B
    /\ C9_ABtIdentity

\* C10: in every state the C-type gates reach from the basis state, g[p] is odd
\* exactly when row p of A meets row p of C with parity 1.
C10_GParity ==
    \A p \in Q : state.g[p] % 2 = Parity(state.A[p], state.C[p])

\* a reached state with an odd and a nonzero even entry of g and A off the identity
C10_Witness ==
    /\ \E p \in Q : state.g[p] % 2 = 1 /\ Parity(state.A[p], state.C[p]) = 1
    /\ \E p \in Q : state.g[p] = 2
    /\ state.A # Identity

(***************************************************************************)
(* SpecAnyPair: as Spec, with any target and control in 0 .. n-1, equal    *)
(* ones included.                                                          *)
(***************************************************************************)
NextAnyPair ==
    \/ \E t \in Q : CallSApply(t, -1)
    \/ \E t \in Q : CallSRight(t, -1)
    \/ \E t \in Q, c \in Q : CallCXApply(t, c, -1)
    \/ \E t \in Q, c \in Q : CallCXRight(t, c, -1)
    \/ \E t \in Q, c \in Q : CallCZApply(t, c, -1)
    \/ \E t \in Q, c \in Q : CallCZRight(t, c, -1)

SpecAnyPair == Init /\ [][NextAnyPair]_vars

\* M is invertible over GF(2): no nonzero combination of its rows is zero
Invertible(M) ==
    \A x \in Rows :
        (\A j \in Q : Parity(x, Col(M, j)) = 0) => x = ZeroVec

\* C3: after any sequence of leftMultiplyC and rightMultiplyC calls of SGate, CXGate
\* and CZGate on the basis state, with target and control any indices in 0 .. n-1,
\* B is invertible over GF(2).
C3_BInvertible == Invertible(state.B)

(***************************************************************************)
(* SpecIdx: at most MaxSteps calls on the basis state, of any gate, with   *)
(* indices inside and outside 0 .. n-1.                                    *)
(***************************************************************************)
IdxRange == (-N - 1) .. N

NextIdx ==
    \/ \E t \in IdxRange : CallSApply(t, MaxSteps)
    \/ \E t \in IdxRange : CallSRight(t, MaxSteps)
    \/ \E t \in IdxRange, c \in IdxRange : CallCXApply(t, c, MaxSteps)
    \/ \E t \in IdxRange, c \in IdxRange : CallCXRight(t, c, MaxSteps)
    \/ \E t \in IdxRange, c \in IdxRange : CallCZApply(t, c, MaxSteps)
    \/ \E t \in IdxRange, c \in IdxRange : CallCZRight(t, c, MaxSteps)
    \/ \E t \in IdxRange : CallHApply(t, MaxSteps)

SpecIdx == Init /\ [][NextIdx]_vars

\* the last call named a qubit index outside 0 .. n-1
OutsideQubits ==
    /\ last.gate # "none"
    /\ \/ last.target \notin Q
       \/ last.gate \in {"CX", "CZ"} /\ last.control \notin Q

\* C5: a call of S, CX, CZ (apply, rightMultiplyC) or H (apply) whose target or
\* control lies outside 0 .. n-1, negative indices included, fails with an error and
\* leaves every field of the state as it was.
C5_OutOfRangeFails == OutsideQubits => (raised /\ state = pre)

(***************************************************************************)
(* SpecH: at most MaxSteps calls on the basis state, of HGate.apply and of *)
(* the C-type gates' methods, with indices in 0 .. n-1, target # control.  *)
(***************************************************************************)
NextH ==
    \/ \E t \in Q : CallHApply(t, MaxSteps)
    \/ \E t \in Q : CallSApply(t, MaxSteps)
    \/ \E t \in Q : CallSRight(t, MaxSteps)
    \/ \E t \in Q, c \in Q : t # c /\ CallCXApply(t, c, MaxSteps)
    \/ \E t \in Q, c \in Q : t # c /\ CallCXRight(t, c, MaxSteps)
    \/ \E t \in Q, c \in Q : t # c /\ CallCZApply(t, c, MaxSteps)
    \/ \E t \in Q, c \in Q : t # c /\ CallCZRight(t, c, MaxSteps)

SpecH == Init /\ [][NextH]_vars

\* HGate(0).apply has just been called twice in a row on the basis state
HZeroTwice ==
    /\ last = Call1("H", "apply", 0)
    /\ run = 2
    /\ base = BasisState

RotMat(r) == [i \in Q |-> [j \in Q |-> r[(i + j) % N]]]

\* the upper triangular matrix of ones
StairMat == [i \in Q |-> [j \in Q |-> IF j >= i THEN 1 ELSE 0]]

MatSample == {RotMat(r) : r \in Rows} \cup {StairMat}

\* g constant, and g rising by one from qubit to qubit
GSample == {[i \in Q |-> (k + d * i) % 4] : k \in 0 .. 3, d \in {0, 1}}

OnesVec == [i \in Q |-> 1]

InitArbitrary(gs, vs, ss) ==
    \E a \in MatSample, b \in MatSample, c \in MatSample, gg \in gs, vv \in vs, sv \in ss :
        InitFrom([A |-> a, B |-> b, C |-> c, g |-> gg, v |-> vv, s |-> sv,
                  phase |-> PhaseOne])

(***************************************************************************)
(* SpecAny: one call of any method of any gate on an arbitrary state, with *)
(* indices in 0 .. n-1.                                                    *)
(***************************************************************************)
InitAny == InitArbitrary(GSample, Rows, {ZeroVec, OnesVec})

NextAny ==
    \/ \E t \in Q : CallSApply(t, 1)
    \/ \E t \in Q : CallSRight(t, 1)
    \/ \E t \in Q, c \in Q : CallCXApply(t, c, 1)
    \/ \E t \in Q, c \in Q : CallCXRight(t, c, 1)
    \/ \E t \in Q, c \in Q : CallCZApply(t, c, 1)
    \/ \E t \in Q, c \in Q : CallCZRight(t, c, 1)
    \/ \E t \in Q : CallHApply(t, 1)

SpecAny == InitAny /\ [][NextAny]_vars

And(a, b) == IF a = 1 /\ b = 1 THEN 1 ELSE 0
Not(a) == IF a = 1 THEN 0 ELSE 1
Differ(a, b) == IF a = b THEN 0 ELSE 1

\* t = s XOR (B[target] AND v)
C7_t(st, target) ==
    [j \in Q |-> Differ(st.s[j], And(st.B[target][j], st.v[j]))]

\* u = s XOR (A[target] AND NOT v) XOR (C[target] AND v)
C7_u(st, target) ==
    [j \in Q |-> Differ(Differ(st.s[j], And(st.A[target][j], Not(st.v[j]))),
                        And(st.C[target][j], st.v[j]))]

\* C7: HGate(target).apply takes the non-splitting branch exactly when t equals u
\* elementwise, and in that branch it sets s to t, leaves v, A, B, C and g as they
\* were and calls neither desuperpositionise nor any rightMultiplyC.
C7_NonSplitting ==
    (last.gate = "H") =>
        LET t == C7_t(pre, last.target)
            u == C7_u(pre, last.target)
        IN /\ (hcalls.branch = "same") <=> (t = u)
           /\ (hcalls.branch = "same") =>
                 /\ state.s = t
                 /\ state.v = pre.v
                 /\ UC(state) = UC(pre)
                 /\ hcalls.desup = 0
                 /\ hcalls.right = 0

\* a non-splitting call that moved s, on a state with v set somewhere, and where the
\* rows of A and of C that make u are not zero
C7_Witness ==
    /\ last.gate = "H"
    /\ hcalls.branch = "same"
    /\ state.s # pre.s
    /\ state.s = C7_t(pre, last.target)
    /\ pre.v # ZeroVec
    /\ pre.A[last.target] # ZeroVec
    /\ pre.C[last.target] # ZeroVec

\* C8: with g kept in unsigned 8-bit integers, every entry of g stays in 0 .. 3
\* under the leftMultiplyC and rightMultiplyC calls of SGate, CXGate and CZGate, and
\* SGate.rightMultiplyC leaves g[p] = (g[p] - A[p][target]) mod 4 in every row p,
\* also where g[p] = 0 and A[p][target] = 1 make the subtraction wrap.
C8_GRange ==
    /\ \A p \in Q : state.g[p] \in 0 .. 3
    /\ (last.gate = "S" /\ last.method = "rightMultiplyC") =>
           \A p \in Q :
               state.g[p] = (pre.g[p] - pre.A[p][last.target]) % 4

\* an SGate.rightMultiplyC call whose subtraction wrapped in some row
C8_Witness ==
    /\ last.gate = "S"
    /\ last.method = "rightMultiplyC"
    /\ \E p \in Q :
          /\ pre.g[p] = 0
          /\ pre.A[p][last.target] = 1
          /\ state.g[p] = 3

(***************************************************************************)
(* SpecS4: at most MaxRun calls of SGate.apply on an arbitrary state.      *)
(***************************************************************************)
InitS4 == InitArbitrary(GSample, {ZeroVec, OnesVec}, {ZeroVec, OnesVec})

NextS4 == \E t \in Q : CallSApply(t, MaxRun)

SpecS4 == InitS4 /\ [][NextS4]_vars

\* C1: four SGate(target).apply calls in a row return A, B, C, g, v, s and phase to
\* their values before the first of them.
C1_SFourTimes ==
    (last.gate = "S" /\ run = 4) => state = base

\* the fourth call of a run that changed C and g on its way
C1_Witness ==
    /\ last.gate = "S"
    /\ run = 4
    /\ state = base
    /\ pre.C # base.C
    /\ pre.g[last.target] = (base.g[last.target] + 9) % 4
    /\ base.g[last.target] = 3

(***************************************************************************)
(* The chaining operator a | b.  heap[r] is the gate object with reference *)
(* r: its class and, for a CompositeGate or a MeasurementOutcome, its      *)
(* gates list (references, in order).                                      *)
(***************************************************************************)
Obj(cls, gates) == [cls |-> cls, gates |-> gates]

IsMeasurement(o) == o.cls = "MeasurementOutcome"
IsComposite(o) == o.cls = "CompositeGate"
IsPrimitive(o) == ~IsMeasurement(o) /\ ~IsComposite(o)

\* UnitaryCliffordGate.__or__(self, other): the heap afterwards
UnitaryOr_heap(h, self, other) ==
    IF IsMeasurement(h[other]) \/ IsComposite(h[other])
    THEN [h EXCEPT ![other].gates = <<self>> \o h[other].gates]
    ELSE Append(h, Obj("CompositeGate", <<self, other>>))

\* UnitaryCliffordGate.__or__(self, other): the reference returned
UnitaryOr_ret(h, self, other) ==
    IF IsMeasurement(h[other]) \/ IsComposite(h[other]) THEN other ELSE Len(h) + 1

\* CompositeGate.__or__(self, other): the heap afterwards
CompositeOr_heap(h, self, other) ==
    IF IsMeasurement(h[other])
    THEN [h EXCEPT ![other].gates = h[self].gates \o h[other].gates]
    ELSE IF IsComposite(h[other])
    THEN [h EXCEPT ![self].gates = h[self].gates \o h[other].gates]
    ELSE [h EXCEPT ![self].gates = Append(h[self].gates, other)]

\* CompositeGate.__or__(self, other): the reference returned
CompositeOr_ret(h, self, other) ==
    IF IsMeasurement(h[other]) THEN other ELSE self

StateVars == <<state, pre, run, base, raised, hcalls, steps>>

Fits(h) == Len(h) <= MaxObjs /\ \A r \in DOMAIN h : Len(h[r].gates) <= MaxLen

CallUnitaryOr(a, b) ==
    /\ IsPrimitive(heap[a])
    /\ Fits(UnitaryOr_heap(heap, a, b))
    /\ heap' = UnitaryOr_heap(heap, a, b)
    /\ ret' = UnitaryOr_ret(heap, a, b)
    /\ heapPre' = heap
    /\ last' = [gate |-> "or", a |-> a, b |-> b]
    /\ UNCHANGED StateVars

CallCompositeOr(a, b) ==
    /\ IsComposite(heap[a])
    /\ Fits(CompositeOr_heap(heap, a, b))
    /\ heap' = CompositeOr_heap(heap, a, b)
    /\ ret' = CompositeOr_ret(heap, a, b)
    /\ heapPre' = heap
    /\ last' = [gate |-> "or", a |-> a, b |-> b]
    /\ UNCHANGED StateVars

\* SGate(0), HGate(1), a CompositeGate and a MeasurementOutcome over them
InitHeaps ==
    {<<Obj("SGate", << >>), Obj("HGate", << >>), Obj("CompositeGate", c),
       Obj("MeasurementOutcome", m)>> :
        c \in {<< >>, <<1>>, <<2, 1>>}, m \in {<< >>, <<2>>}}

InitGates == \E h \in InitHeaps : InitWith(BasisState, h)

NextGates ==
    \/ \E a \in DOMAIN heap, b \in DOMAIN heap : CallUnitaryOr(a, b)
    \/ \E a \in DOMAIN heap, b \in DOMAIN heap : CallCompositeOr(a, b)

SpecGates == InitGates /\ [][NextGates]_vars

\* C6: evaluating a | b leaves the gate list of a and the gate list of b exactly as
\* they were before.
C6_OrLeavesOperands ==
    (last.gate = "or") =>
        /\ heap[last.a].gates = heapPre[last.a].gates
        /\ heap[last.b].gates = heapPre[last.b].gates

====
